---- MODULE Spec2Model ----
(***************************************************************************)
(* A model of the Drawing data model (src/src/lib.rs) and of the point-pen *)
(* builder (src/src/pen.rs).                                               *)
(*                                                                         *)
(* Option<T> is modelled as a sequence of length 0 (None) or 1 (Some(v)).  *)
(* A Vec<T> is a sequence.  f64 coordinates are modelled by integers.      *)
(* A panic (a failed assert!/assert_eq!/expect) is the terminal state in   *)
(* which `panic` holds the message; no call follows it.                    *)
(***************************************************************************)
EXTENDS Integers, Sequences, FiniteSets, TLC

VARIABLES
    drawing,      \* the Drawing owned by the caller
    pen,          \* Option<PointPen>: the live builder session, if any
    panic,        \* "none", or the message of the panic that ended the run
    lastCall,     \* history: the call made by the last step
    calls,        \* history: add_point arguments since the last begin_path
    contours0,    \* history: drawing.contours when the session was created
    ended,        \* history: the call sequences of the completed cycles
    nBegin,       \* history: begin_path calls of the session that returned
    nEnd,         \* history: end_path calls of the session that returned
    nAffine,      \* history: apply_affine calls so far
    preAffine,    \* history: the Drawing before the last apply_affine
    direct        \* a second Drawing, filled through its public fields

vars == <<drawing, pen, panic, lastCall, calls, contours0, ended,
          nBegin, nEnd, nAffine, preAffine, direct>>

(***************************************************************************)
(* Bounds of the model.                                                    *)
(***************************************************************************)
\* add_point calls that return, over the contours of the Drawing and the open one
MaxPoints == 3
\* contours in the Drawing
MaxContours == 2
\* components in the Drawing
MaxComponents == 2
\* anchors in the Drawing
MaxAnchors == 1
\* apply_affine calls in a run
MaxAffine == 2

(***************************************************************************)
(* Option<T>                                                               *)
(***************************************************************************)
None == <<>>
Some(v) == <<v>>
is_some(o) == Len(o) = 1
unwrap(o) == o[1]

(***************************************************************************)
(* kurbo::Point and kurbo::Affine.  An Affine is its six coefficients      *)
(* <<a, b, c, d, e, f>>; it maps (x, y) to (a*x + c*y + e, b*x + d*y + f). *)
(***************************************************************************)
Point_new(x, y) == [x |-> x, y |-> y]

Affine_new(c) == <<c[1], c[2], c[3], c[4], c[5], c[6]>>

Affine_IDENTITY == Affine_new(<<1, 0, 0, 1, 0, 0>>)

Affine_translate(p) == Affine_new(<<1, 0, 0, 1, p[1], p[2]>>)

\* impl Mul<Point> for Affine
AffineMulPoint(t, p) ==
    Point_new(t[1] * p.x + t[3] * p.y + t[5],
              t[2] * p.x + t[4] * p.y + t[6])

\* impl Mul for Affine: (s * o) applies o first, then s
AffineMulAffine(s, o) ==
    Affine_new(<<s[1] * o[1] + s[3] * o[2],
                 s[2] * o[1] + s[4] * o[2],
                 s[1] * o[3] + s[3] * o[4],
                 s[2] * o[3] + s[4] * o[4],
                 s[1] * o[5] + s[3] * o[6] + s[5],
                 s[2] * o[5] + s[4] * o[6] + s[6]>>)

(***************************************************************************)
(* norad::Name.  A string is the sequence of its bytes.  Name::new rejects *)
(* the empty string and any string holding a control character.            *)
(***************************************************************************)
IsControl(b) == (0 <= b /\ b <= 31) \/ b = 127

Name_new(s) ==
    IF s = <<>> \/ (\E i \in 1..Len(s) : IsControl(s[i]))
    THEN [ok |-> FALSE, name |-> <<>>]
    ELSE [ok |-> TRUE, name |-> s]

(***************************************************************************)
(* The data model: lib.rs                                                  *)
(***************************************************************************)
PointType == {"OffCurve", "Move", "SmoothMove", "Line", "SmoothLine",
              "Curve", "SmoothCurve", "QCurve", "SmoothQCurve"}

ExpectMsg == "Name must match UFO restrictions"
AssertMsg == "assertion failed"

\* Drawing::new, through #[derive(Default)]
Drawing_new ==
    [height_and_origin |-> None, width |-> 0,
     anchors |-> <<>>, components |-> <<>>, contours |-> <<>>]

\* Node::new
Node_new(x, y, typ) == [pt |-> Point_new(x, y), typ |-> typ]

\* Contour::new
Contour_new == [nodes |-> <<>>]

\* Contour::from_nodes
Contour_from_nodes(nodes) == [nodes |-> nodes]

\* Anchor::new: the value built, and whether expect() let it through
Anchor_new(x, y, name) ==
    LET n == Name_new(name)
    IN  [panic |-> IF n.ok THEN "none" ELSE ExpectMsg,
         value |-> [pt |-> Point_new(x, y), name |-> n.name]]

\* a bug: the Result of Name::new is not checked, the string is taken as it is
Component_new_unchecked(base, transform) ==
    [panic |-> "none", value |-> [base |-> base, transform |-> transform]]

\* Component::new
Component_new(base, transform) ==
    LET n == Name_new(base)
    IN  [panic |-> IF n.ok THEN "none" ELSE ExpectMsg,
         value |-> [base |-> n.name, transform |-> transform]]

\* Anchor::apply_affine
Anchor_apply_affine(self, transform) ==
    [self EXCEPT !.pt = AffineMulPoint(transform, self.pt)]

\* a bug: composes on the wrong side, self.transform * transform
Component_apply_affine_postmul(self, transform) ==
    [self EXCEPT !.transform = AffineMulAffine(self.transform, transform)]

\* a bug: replaces the transform instead of composing with it
Component_apply_affine_overwrite(self, transform) ==
    [self EXCEPT !.transform = transform]

\* Component::apply_affine
Component_apply_affine(self, transform) ==
    [self EXCEPT !.transform = AffineMulAffine(transform, self.transform)]

\* a bug: rebuilds each node with Node::new and a fixed type
Contour_apply_affine_retype(self, transform) ==
    [self EXCEPT !.nodes =
        [i \in 1..Len(self.nodes) |->
            LET q == AffineMulPoint(transform, self.nodes[i].pt)
            IN  Node_new(q.x, q.y, "Line")]]

\* Contour::apply_affine
Contour_apply_affine(self, transform) ==
    [self EXCEPT !.nodes =
        [i \in 1..Len(self.nodes) |->
            [self.nodes[i] EXCEPT !.pt = AffineMulPoint(transform, self.nodes[i].pt)]]]

\* a bug: the loop over the anchors is missing
Drawing_apply_affine_skip_anchors(self, transform) ==
    [self EXCEPT
        !.components = [i \in 1..Len(self.components) |->
                        Component_apply_affine(self.components[i], transform)],
        !.contours = [i \in 1..Len(self.contours) |->
                        Contour_apply_affine(self.contours[i], transform)]]

\* a bug: the advance width is scaled with the x scale of the transform
Drawing_apply_affine_scale_width(self, transform) ==
    [self EXCEPT
        !.width = self.width * transform[1],
        !.anchors = [i \in 1..Len(self.anchors) |->
                        Anchor_apply_affine(self.anchors[i], transform)],
        !.components = [i \in 1..Len(self.components) |->
                        Component_apply_affine(self.components[i], transform)],
        !.contours = [i \in 1..Len(self.contours) |->
                        Contour_apply_affine(self.contours[i], transform)]]

\* Drawing::apply_affine
Drawing_apply_affine(self, transform) ==
    [self EXCEPT
        !.anchors = [i \in 1..Len(self.anchors) |->
                        Anchor_apply_affine(self.anchors[i], transform)],
        !.components = [i \in 1..Len(self.components) |->
                        Component_apply_affine(self.components[i], transform)],
        !.contours = [i \in 1..Len(self.contours) |->
                        Contour_apply_affine(self.contours[i], transform)]]

\* Drawing::add_anchor
Drawing_add_anchor(self, x, y, name) ==
    LET a == Anchor_new(x, y, name)
    IN  IF a.panic # "none"
        THEN [panic |-> a.panic, self |-> self]
        ELSE [panic |-> "none",
              self |-> [self EXCEPT !.anchors = Append(self.anchors, a.value)]]

(***************************************************************************)
(* The builder: pen.rs.  `self` is the PointPen with the Drawing it        *)
(* borrows: [current_contour, drawing].                                    *)
(***************************************************************************)
\* PointPen::new
PointPen_new(d) == [current_contour |-> None, drawing |-> d]

\* a bug: no assert_eq!, an open contour is silently replaced
PointPen_begin_path_no_assert(self) ==
    [panic |-> "none",
     self |-> [self EXCEPT !.current_contour = Some(Contour_new)]]

\* a bug: the new contour is pushed to the Drawing when the path begins
PointPen_begin_path_push_early(self) ==
    IF self.current_contour # None
    THEN [panic |-> AssertMsg, self |-> self]
    ELSE [panic |-> "none",
          self |-> [self EXCEPT
                !.drawing.contours = Append(self.drawing.contours, Contour_new),
                !.current_contour = Some(Contour_new)]]

\* PointPen::begin_path
PointPen_begin_path(self) ==
    IF self.current_contour # None
    THEN [panic |-> AssertMsg, self |-> self]
    ELSE [panic |-> "none",
          self |-> [self EXCEPT !.current_contour = Some(Contour_new)]]

\* a bug: no assert!, and take().unwrap_or_default()
PointPen_end_path_or_default(self) ==
    [panic |-> "none",
     self |-> [self EXCEPT
        !.drawing.contours = Append(self.drawing.contours,
            IF is_some(self.current_contour)
            THEN unwrap(self.current_contour) ELSE Contour_new),
        !.current_contour = None]]

\* a bug: contours.insert(0, ..) instead of push
PointPen_end_path_insert_front(self) ==
    IF ~is_some(self.current_contour)
    THEN [panic |-> AssertMsg, self |-> self]
    ELSE [panic |-> "none",
          self |-> [self EXCEPT
                !.drawing.contours = <<unwrap(self.current_contour)>>
                                        \o self.drawing.contours,
                !.current_contour = None]]

\* a bug: clone() instead of take(), the slot is not cleared
PointPen_end_path_clone(self) ==
    IF ~is_some(self.current_contour)
    THEN [panic |-> AssertMsg, self |-> self]
    ELSE [panic |-> "none",
          self |-> [self EXCEPT
                !.drawing.contours = Append(self.drawing.contours,
                                            unwrap(self.current_contour))]]

\* PointPen::end_path
PointPen_end_path(self) ==
    IF ~is_some(self.current_contour)
    THEN [panic |-> AssertMsg, self |-> self]
    ELSE [panic |-> "none",
          self |-> [self EXCEPT
                !.drawing.contours = Append(self.drawing.contours,
                                            unwrap(self.current_contour)),
                !.current_contour = None]]

\* a bug: nodes.insert(0, ..) instead of push
PointPen_add_point_insert_front(self, x, y, segment_type) ==
    IF ~is_some(self.current_contour)
    THEN [panic |-> AssertMsg, self |-> self]
    ELSE [panic |-> "none",
          self |-> [self EXCEPT
                !.current_contour = Some(
                    [unwrap(self.current_contour) EXCEPT
                        !.nodes = <<Node_new(x, y, segment_type)>>
                                    \o unwrap(self.current_contour).nodes])]]

\* a bug: segment_type is ignored, every node is a Line
PointPen_add_point_retype(self, x, y, segment_type) ==
    IF ~is_some(self.current_contour)
    THEN [panic |-> AssertMsg, self |-> self]
    ELSE [panic |-> "none",
          self |-> [self EXCEPT
                !.current_contour = Some(
                    [unwrap(self.current_contour) EXCEPT
                        !.nodes = Append(unwrap(self.current_contour).nodes,
                                         Node_new(x, y, "Line"))])]]

\* PointPen::add_point
PointPen_add_point(self, x, y, segment_type) ==
    IF ~is_some(self.current_contour)
    THEN [panic |-> AssertMsg, self |-> self]
    ELSE [panic |-> "none",
          self |-> [self EXCEPT
                !.current_contour = Some(
                    [unwrap(self.current_contour) EXCEPT
                        !.nodes = Append(unwrap(self.current_contour).nodes,
                                         Node_new(x, y, segment_type))])]]

\* a bug: components.insert(0, ..) instead of push
PointPen_add_component_insert_front(self, glyph_name, transform) ==
    LET c == Component_new(glyph_name, transform)
    IN  IF c.panic # "none"
        THEN [panic |-> c.panic, self |-> self]
        ELSE [panic |-> "none",
              self |-> [self EXCEPT
                    !.drawing.components = <<c.value>> \o self.drawing.components]]

\* PointPen::add_component
PointPen_add_component(self, glyph_name, transform) ==
    LET c == Component_new(glyph_name, transform)
    IN  IF c.panic # "none"
        THEN [panic |-> c.panic, self |-> self]
        ELSE [panic |-> "none",
              self |-> [self EXCEPT
                    !.drawing.components = Append(self.drawing.components, c.value)]]

(***************************************************************************)
(* The inputs the callers draw from.                                       *)
(***************************************************************************)
\* add_point arguments <<x, y, segment_type>>
NodeInputs == {<<0, 0, "Move">>, <<1, 1, "Line">>}

\* add_anchor coordinates
AnchorInputs == {<<3, 2>>}

\* add_component transforms
ComponentInputs == {Affine_translate(<<1, 1>>), Affine_new(<<2, 1, -1, 3, 4, 5>>)}

\* add_anchor names: "a", "" and "a\n"
AnchorNames == {<<97>>, <<>>, <<97, 10>>}

\* add_component names: "b", "" and "\x7fb"
ComponentNames == {<<98>>, <<>>, <<127, 98>>}

\* transforms: identity, two translations, and a matrix with a skewed linear part
Transforms == {Affine_IDENTITY,
               Affine_translate(<<1, 1>>),
               Affine_translate(<<123, 456>>),
               Affine_new(<<2, 1, -1, 3, 4, 5>>)}

NoCall == [op |-> "new", x |-> 0, y |-> 0, typ |-> "", name |-> <<>>,
           transform |-> Affine_IDENTITY]

(***************************************************************************)
(* The state after `let mut drawing = Drawing::new();`                     *)
(***************************************************************************)
Init ==
    /\ drawing = Drawing_new
    /\ pen = None
    /\ panic = "none"
    /\ lastCall = NoCall
    /\ calls = <<>>
    /\ contours0 = <<>>
    /\ ended = <<>>
    /\ nBegin = 0
    /\ nEnd = 0
    /\ nAffine = 0
    /\ preAffine = Drawing_new
    /\ direct = Drawing_new

Running == panic = "none"
Live == Running /\ is_some(pen)
\* a bug: the pen holds a shared handle, the caller keeps access to the Drawing
Unborrowed_shared == Running

\* the &mut Drawing held by the PointPen keeps the caller off the Drawing
Unborrowed == Running /\ pen = None

RECURSIVE SumLen(_)
SumLen(cs) == IF cs = <<>> THEN 0 ELSE Len(Head(cs).nodes) + SumLen(Tail(cs))

\* the points held by the Drawing's contours and by the open contour
TotalPoints == SumLen(drawing.contours) + Len(calls)

PenSelf == [current_contour |-> unwrap(pen).current_contour, drawing |-> drawing]

\* write a pen method's outcome back to the session and the borrowed Drawing
PenReturn(r) ==
    /\ panic' = r.panic
    /\ pen' = Some([current_contour |-> r.self.current_contour])
    /\ drawing' = r.self.drawing

\* drawing.add_anchor(x, y, name)
AddAnchor(x, y, name) ==
    /\ Unborrowed
    /\ Name_new(name).ok => Len(drawing.anchors) < MaxAnchors
    /\ LET r == Drawing_add_anchor(drawing, x, y, name)
       IN  /\ panic' = r.panic
           /\ drawing' = r.self
    /\ lastCall' = [NoCall EXCEPT !.op = "add_anchor", !.x = x, !.y = y, !.name = name]
    /\ UNCHANGED <<pen, calls, contours0, ended, nBegin, nEnd, nAffine, preAffine>>

\* drawing.apply_affine(transform)
ApplyAffine(transform) ==
    /\ Unborrowed
    /\ nAffine < MaxAffine
    /\ drawing' = Drawing_apply_affine(drawing, transform)
    /\ preAffine' = drawing
    /\ nAffine' = nAffine + 1
    /\ lastCall' = [NoCall EXCEPT !.op = "apply_affine", !.transform = transform]
    /\ UNCHANGED <<pen, panic, calls, contours0, ended, nBegin, nEnd>>

\* let mut pen = drawing.point_pen();
PointPen ==
    /\ Unborrowed
    /\ LET self == PointPen_new(drawing)
       IN  /\ pen' = Some([current_contour |-> self.current_contour])
           /\ drawing' = self.drawing
    /\ lastCall' = [NoCall EXCEPT !.op = "point_pen"]
    /\ calls' = <<>>
    /\ contours0' = drawing.contours
    /\ ended' = <<>>
    /\ nBegin' = 0
    /\ nEnd' = 0
    /\ UNCHANGED <<panic, nAffine, preAffine>>

\* pen.begin_path()
BeginPath ==
    /\ Live
    /\ unwrap(pen).current_contour = None => Len(drawing.contours) < MaxContours
    /\ LET r == PointPen_begin_path(PenSelf)
       IN  /\ PenReturn(r)
           /\ nBegin' = IF r.panic = "none" THEN nBegin + 1 ELSE nBegin
           /\ calls' = IF r.panic = "none" THEN <<>> ELSE calls
    /\ lastCall' = [NoCall EXCEPT !.op = "begin_path"]
    /\ UNCHANGED <<contours0, ended, nEnd, nAffine, preAffine>>

\* pen.add_point(x, y, segment_type)
AddPoint(x, y, segment_type) ==
    /\ Live
    /\ is_some(unwrap(pen).current_contour) => TotalPoints < MaxPoints
    /\ LET r == PointPen_add_point(PenSelf, x, y, segment_type)
       IN  /\ PenReturn(r)
           /\ calls' = IF r.panic = "none"
                       THEN Append(calls, <<x, y, segment_type>>)
                       ELSE calls
    /\ lastCall' = [NoCall EXCEPT !.op = "add_point", !.x = x, !.y = y,
                                  !.typ = segment_type]
    /\ UNCHANGED <<contours0, ended, nBegin, nEnd, nAffine, preAffine>>

\* pen.end_path()
EndPath ==
    /\ Live
    /\ LET r == PointPen_end_path(PenSelf)
       IN  /\ PenReturn(r)
           /\ nEnd' = IF r.panic = "none" THEN nEnd + 1 ELSE nEnd
           /\ ended' = IF r.panic = "none" THEN Append(ended, calls) ELSE ended
           /\ calls' = IF r.panic = "none" THEN <<>> ELSE calls
    /\ lastCall' = [NoCall EXCEPT !.op = "end_path"]
    /\ UNCHANGED <<contours0, nBegin, nAffine, preAffine>>

\* pen.add_component(glyph_name, transform)
AddComponent(glyph_name, transform) ==
    /\ Live
    /\ Name_new(glyph_name).ok => Len(drawing.components) < MaxComponents
    /\ PenReturn(PointPen_add_component(PenSelf, glyph_name, transform))
    /\ lastCall' = [NoCall EXCEPT !.op = "add_component", !.name = glyph_name,
                                  !.transform = transform]
    /\ UNCHANGED <<calls, contours0, ended, nBegin, nEnd, nAffine, preAffine>>

\* a bug: an impl Drop that ends the open path
DropPen_flush ==
    /\ Live
    /\ pen' = None
    /\ drawing' = IF is_some(unwrap(pen).current_contour)
                  THEN [drawing EXCEPT !.contours =
                            Append(drawing.contours, unwrap(unwrap(pen).current_contour))]
                  ELSE drawing
    /\ lastCall' = [NoCall EXCEPT !.op = "drop"]
    /\ contours0' = <<>>
    /\ ended' = <<>>
    /\ nBegin' = 0
    /\ nEnd' = 0
    /\ UNCHANGED <<panic, calls, nAffine, preAffine>>

\* the PointPen goes out of scope: its current_contour is dropped with it
DropPen ==
    /\ Live
    /\ pen' = None
    /\ lastCall' = [NoCall EXCEPT !.op = "drop"]
    /\ contours0' = <<>>
    /\ ended' = <<>>
    /\ nBegin' = 0
    /\ nEnd' = 0
    /\ UNCHANGED <<drawing, panic, calls, nAffine, preAffine>>

(***************************************************************************)
(* Spec: a caller builds one Drawing with add_anchor and pen sessions.     *)
(***************************************************************************)
Next ==
    \/ \E p \in AnchorInputs, name \in AnchorNames :
            AddAnchor(p[1], p[2], name) /\ UNCHANGED direct
    \/ PointPen /\ UNCHANGED direct
    \/ BeginPath /\ UNCHANGED direct
    \/ \E n \in NodeInputs : AddPoint(n[1], n[2], n[3]) /\ UNCHANGED direct
    \/ EndPath /\ UNCHANGED direct
    \/ \E name \in ComponentNames, t \in ComponentInputs :
            AddComponent(name, t) /\ UNCHANGED direct
    \/ DropPen /\ UNCHANGED direct

Spec == Init /\ [][Next]_vars

(***************************************************************************)
(* SpecAffine: the owner of a Drawing, built by any means (its fields are  *)
(* public), transforms it.  No builder session is alive.                   *)
(***************************************************************************)
SeqsUpTo(S, n) == UNION {[1..k -> S] : k \in 0..n}

AnchorValues == {Anchor_new(0, 0, <<97>>).value, Anchor_new(3, 2, <<97>>).value}

ComponentValues == {Component_new(<<98>>, t).value : t \in ComponentInputs}

ContourValues ==
    {Contour_new,
     Contour_from_nodes(<<Node_new(0, 0, "Move"), Node_new(1, 1, "Line")>>),
     Contour_from_nodes(<<Node_new(2, 1, "OffCurve")>>)}

\* <<height_and_origin, width>>
MetricValues == {<<None, 0>>, <<Some(<<10, -2>>), 5>>}

Drawings ==
    {[height_and_origin |-> m[1], width |-> m[2],
      anchors |-> a, components |-> c, contours |-> k] :
        m \in MetricValues,
        a \in SeqsUpTo(AnchorValues, MaxAnchors),
        c \in SeqsUpTo(ComponentValues, MaxComponents),
        k \in SeqsUpTo(ContourValues, MaxContours)}

InitAffine ==
    /\ drawing \in Drawings
    /\ pen = None
    /\ panic = "none"
    /\ lastCall = NoCall
    /\ calls = <<>>
    /\ contours0 = <<>>
    /\ ended = <<>>
    /\ nBegin = 0
    /\ nEnd = 0
    /\ nAffine = 0
    /\ preAffine = drawing
    /\ direct = drawing

NextAffine == \E t \in Transforms : ApplyAffine(t) /\ UNCHANGED direct

SpecAffine == InitAffine /\ [][NextAffine]_vars

(***************************************************************************)
(* Properties of the builder, checked under Spec.                          *)
(***************************************************************************)
\* the pen's current-contour slot
Slot == unwrap(pen).current_contour
Idle == is_some(pen) /\ Slot = None
PathOpen == is_some(pen) /\ is_some(Slot)

\* a node list holds exactly the given add_point calls, in call order
NodesMatch(nodes, cs) ==
    /\ Len(nodes) = Len(cs)
    /\ \A i \in 1..Len(cs) :
        /\ nodes[i].pt.x = cs[i][1]
        /\ nodes[i].pt.y = cs[i][2]
        /\ nodes[i].typ = cs[i][3]

\* C1: in an Idle pen, add_point and end_path fail their assertion, and the
\* Drawing and the current-contour slot are as they were before the call.
C1_IdleAddPointEndPathFatal ==
    [][(Live /\ Idle /\ lastCall'.op \in {"add_point", "end_path"})
        => (panic' = AssertMsg /\ drawing' = drawing /\ pen' = pen)]_vars

\* an end_path that panicked in an Idle pen, after a completed cycle and an
\* add_component
C1_Witness ==
    /\ lastCall.op = "end_path"
    /\ panic = AssertMsg
    /\ Idle
    /\ nEnd >= 1
    /\ Len(drawing.components) >= 1

\* C2: begin_path in PathOpen fails its assertion and leaves the contour under
\* construction and the Drawing unchanged; in Idle it returns.
C2_BeginPathOnlyWhenIdle ==
    [][(Live /\ lastCall'.op = "begin_path")
        => IF PathOpen
           THEN panic' = AssertMsg /\ drawing' = drawing /\ pen' = pen
           ELSE panic' = "none"]_vars

\* a second begin_path that panicked with two points in the open contour
C2_Witness ==
    /\ lastCall.op = "begin_path"
    /\ panic = AssertMsg
    /\ PathOpen
    /\ Len(unwrap(Slot).nodes) = 2
    /\ Len(drawing.components) >= 1

\* C3: the contour under construction holds the add_point calls made since
\* begin_path, in call order, and the Contour end_path appends holds exactly
\* the calls of its cycle.
C3_ContourIsCallSequence ==
    /\ PathOpen => NodesMatch(unwrap(Slot).nodes, calls)
    /\ (is_some(pen) /\ lastCall.op = "end_path" /\ panic = "none")
        => /\ Len(drawing.contours) >= 1
           /\ Len(ended) >= 1
           /\ NodesMatch(drawing.contours[Len(drawing.contours)].nodes,
                         ended[Len(ended)])

\* end_path has appended a contour of two different points, with a component
\* added in the session
C3_Witness ==
    /\ lastCall.op = "end_path"
    /\ panic = "none"
    /\ Len(ended) >= 1
    /\ Len(ended[Len(ended)]) = 2
    /\ ended[Len(ended)][1] # ended[Len(ended)][2]
    /\ Len(drawing.components) >= 1

\* C4: during a session the Drawing's contours are the contours present when
\* the session began, unaltered, followed by one contour per completed cycle,
\* in completion order.
C4_ContoursInCompletionOrder ==
    is_some(pen) =>
        /\ Len(drawing.contours) = Len(contours0) + Len(ended)
        /\ \A i \in 1..Len(contours0) : drawing.contours[i] = contours0[i]
        /\ \A j \in 1..Len(ended) :
            NodesMatch(drawing.contours[Len(contours0) + j].nodes, ended[j])

\* two cycles with different call sequences have completed in one session
C4_Witness ==
    /\ is_some(pen)
    /\ panic = "none"
    /\ Len(ended) = 2
    /\ ended[1] # ended[2]

\* C5: a new pen is Idle; begin_path leaves an empty open contour; add_point
\* leaves the pen PathOpen; end_path leaves it Idle; the pen is PathOpen
\* exactly when begin_path has returned once more than end_path, and Idle
\* exactly when they have returned equally often.
C5_TwoStateMachine ==
    is_some(pen) =>
        /\ PathOpen <=> nBegin = nEnd + 1
        /\ Idle <=> nBegin = nEnd
        /\ lastCall.op = "point_pen" => Idle
        /\ (lastCall.op = "begin_path" /\ panic = "none")
            => Slot = Some([nodes |-> <<>>])
        /\ (lastCall.op = "add_point" /\ panic = "none") => PathOpen
        /\ (lastCall.op = "end_path" /\ panic = "none") => Idle

\* the second cycle of a session is open
C5_Witness ==
    /\ PathOpen
    /\ panic = "none"
    /\ nBegin = 2
    /\ nEnd = 1

\* C6: add_component with a valid name returns in Idle and in PathOpen, appends
\* the Component of its arguments at the end of components, and changes
\* nothing else of the Drawing nor the pen.
C6_AddComponentFrame ==
    [][(Live /\ lastCall'.op = "add_component" /\ Name_new(lastCall'.name).ok)
        => /\ panic' = "none"
           /\ drawing'.components =
                Append(drawing.components,
                       [base |-> lastCall'.name, transform |-> lastCall'.transform])
           /\ drawing' = [drawing EXCEPT !.components = drawing'.components]
           /\ pen' = pen]_vars

\* a second component was added while a contour holding a point was open
C6_Witness ==
    /\ lastCall.op = "add_component"
    /\ panic = "none"
    /\ PathOpen
    /\ Len(unwrap(Slot).nodes) >= 1
    /\ Len(drawing.components) = 2
    /\ drawing.components[1] # drawing.components[2]

(***************************************************************************)
(* Properties of apply_affine, checked under SpecAffine.                   *)
(***************************************************************************)
IsApply(c) == c.op = "apply_affine"

IsTranslation(t) == t[1] = 1 /\ t[2] = 0 /\ t[3] = 0 /\ t[4] = 1

\* three points that are not collinear: they tell any two affine maps apart
ProbePoints == {Point_new(0, 0), Point_new(1, 0), Point_new(0, 1)}

\* C7: apply_affine(T1) followed by apply_affine(T2) leaves the Drawing as one
\* apply_affine(T2 * T1) of the Drawing before the two calls does.
C7_CompositionLaw ==
    [][(IsApply(lastCall) /\ IsApply(lastCall'))
        => drawing' = Drawing_apply_affine(preAffine,
                        AffineMulAffine(lastCall'.transform, lastCall.transform))]_vars

\* two calls have been made on a Drawing with an anchor, a component and a
\* contour with nodes, the second with the skewed matrix, the first with a
\* translation
C7_Witness ==
    /\ nAffine = 2
    /\ lastCall.transform = Affine_new(<<2, 1, -1, 3, 4, 5>>)
    /\ Len(preAffine.anchors) >= 1
    /\ preAffine.anchors[1].pt = Point_new(1, 1)
    /\ Len(preAffine.components) >= 1
    /\ Len(preAffine.contours) >= 1
    /\ Len(preAffine.contours[1].nodes) = 2

\* C8: apply_affine(T) turns a component transform C into T * C: the new
\* transform maps a point as C followed by T does; the base is unchanged.
C8_ComponentComposesAfter ==
    [][IsApply(lastCall')
        => /\ Len(drawing'.components) = Len(drawing.components)
           /\ \A i \in 1..Len(drawing.components) :
                LET C == drawing.components[i].transform
                    T == lastCall'.transform
                    N == drawing'.components[i].transform
                IN  /\ N = AffineMulAffine(T, C)
                    /\ \A p \in ProbePoints :
                        AffineMulPoint(N, p) = AffineMulPoint(T, AffineMulPoint(C, p))
                    /\ drawing'.components[i].base = drawing.components[i].base]_vars

\* the skewed matrix was applied to a component holding a translation: the
\* two do not commute
C8_Witness ==
    /\ IsApply(lastCall)
    /\ lastCall.transform = Affine_new(<<2, 1, -1, 3, 4, 5>>)
    /\ Len(preAffine.components) >= 1
    /\ preAffine.components[1].transform = Affine_translate(<<1, 1>>)

\* C9: apply_affine(Affine::IDENTITY) leaves the Drawing equal to what it was.
C9_IdentityLaw ==
    [][(IsApply(lastCall') /\ lastCall'.transform = Affine_IDENTITY)
        => drawing' = drawing]_vars

\* the identity was applied to a Drawing with every field set, which an
\* earlier call had already transformed
C9_Witness ==
    /\ IsApply(lastCall)
    /\ lastCall.transform = Affine_IDENTITY
    /\ nAffine = 2
    /\ preAffine.height_and_origin # None
    /\ preAffine.width # 0
    /\ Len(preAffine.anchors) >= 1
    /\ preAffine.anchors[1].pt # Point_new(0, 0)
    /\ Len(preAffine.components) >= 1
    /\ Len(preAffine.contours) >= 1
    /\ Len(preAffine.contours[1].nodes) >= 1

\* the Drawing of the end-to-end scenario, and the expected result
ScenarioDrawing ==
    [height_and_origin |-> None, width |-> 0,
     anchors |-> <<[pt |-> [x |-> 0, y |-> 0], name |-> <<97>>]>>,
     components |-> <<[base |-> <<98>>, transform |-> <<1, 0, 0, 1, 1, 1>>]>>,
     contours |-> <<[nodes |-> <<[pt |-> [x |-> 0, y |-> 0], typ |-> "Move"],
                                 [pt |-> [x |-> 1, y |-> 1], typ |-> "Line"]>>]>>]

ScenarioResult ==
    [height_and_origin |-> None, width |-> 0,
     anchors |-> <<[pt |-> [x |-> 123, y |-> 456], name |-> <<97>>]>>,
     components |-> <<[base |-> <<98>>, transform |-> <<1, 0, 0, 1, 124, 457>>]>>,
     contours |-> <<[nodes |-> <<[pt |-> [x |-> 123, y |-> 456], typ |-> "Move"],
                                 [pt |-> [x |-> 124, y |-> 457], typ |-> "Line"]>>]>>]

\* C10: apply_affine of a translation by (dx, dy) moves every anchor point and
\* every node point by (dx, dy) and adds (dx, dy) to the translation of every
\* component transform, whose linear part stays; the scenario Drawing under
\* translate(123, 456) becomes the scenario result.
C10_TranslationMoves ==
    [][(IsApply(lastCall') /\ IsTranslation(lastCall'.transform))
        => LET dx == lastCall'.transform[5]
               dy == lastCall'.transform[6]
           IN  /\ Len(drawing'.anchors) = Len(drawing.anchors)
               /\ \A i \in 1..Len(drawing.anchors) :
                    /\ drawing'.anchors[i].pt.x = drawing.anchors[i].pt.x + dx
                    /\ drawing'.anchors[i].pt.y = drawing.anchors[i].pt.y + dy
               /\ Len(drawing'.contours) = Len(drawing.contours)
               /\ \A i \in 1..Len(drawing.contours) :
                    /\ Len(drawing'.contours[i].nodes) = Len(drawing.contours[i].nodes)
                    /\ \A j \in 1..Len(drawing.contours[i].nodes) :
                        /\ drawing'.contours[i].nodes[j].pt.x
                            = drawing.contours[i].nodes[j].pt.x + dx
                        /\ drawing'.contours[i].nodes[j].pt.y
                            = drawing.contours[i].nodes[j].pt.y + dy
                        /\ drawing'.contours[i].nodes[j].typ
                            = drawing.contours[i].nodes[j].typ
               /\ Len(drawing'.components) = Len(drawing.components)
               /\ \A i \in 1..Len(drawing.components) :
                    LET C == drawing.components[i].transform
                    IN  drawing'.components[i].transform
                            = <<C[1], C[2], C[3], C[4], C[5] + dx, C[6] + dy>>
               /\ (drawing = ScenarioDrawing /\ dx = 123 /\ dy = 456)
                    => drawing' = ScenarioResult]_vars

\* translate(123, 456) was applied to the scenario Drawing
C10_Witness ==
    /\ IsApply(lastCall)
    /\ lastCall.transform = Affine_translate(<<123, 456>>)
    /\ preAffine = ScenarioDrawing

(***************************************************************************)
(* SpecEquiv: the caller of Spec, who also transforms the Drawing between  *)
(* sessions, and beside it a caller who fills `direct` through its public  *)
(* fields (tests::direct): each add_anchor, completed cycle, add_component *)
(* and apply_affine on `drawing` is matched by a push or an apply_affine   *)
(* on `direct`.                                                            *)
(***************************************************************************)
\* drawing.anchors.push(Anchor::new(x, y, name))
Direct_push_anchor(d, x, y, name) ==
    LET a == Anchor_new(x, y, name)
    IN  IF a.panic # "none" THEN d
        ELSE [d EXCEPT !.anchors = Append(d.anchors, a.value)]

\* drawing.components.push(Component::new(base, transform))
Direct_push_component(d, base, transform) ==
    LET c == Component_new(base, transform)
    IN  IF c.panic # "none" THEN d
        ELSE [d EXCEPT !.components = Append(d.components, c.value)]

\* drawing.contours.push(Contour::from_nodes(vec![Node::new(..), ..]))
Direct_push_contour(d, list) ==
    [d EXCEPT !.contours = Append(d.contours,
        Contour_from_nodes([i \in 1..Len(list) |->
                                Node_new(list[i][1], list[i][2], list[i][3])]))]

\* add_anchor coordinates of the end-to-end scenario
EquivAnchorInputs == {<<0, 0>>}

\* apply_affine transforms: the scenario's translation and the skewed matrix
EquivTransforms == {Affine_translate(<<123, 456>>), Affine_new(<<2, 1, -1, 3, 4, 5>>)}

\* the calls return (valid names, the pen protocol kept), and the caller
\* builds before transforming
NextEquiv ==
    \/ \E p \in EquivAnchorInputs :
            /\ nAffine = 0
            /\ AddAnchor(p[1], p[2], <<97>>)
            /\ direct' = Direct_push_anchor(direct, p[1], p[2], <<97>>)
    \/ nAffine = 0 /\ PointPen /\ UNCHANGED direct
    \/ Idle /\ BeginPath /\ UNCHANGED direct
    \/ \E n \in NodeInputs :
            PathOpen /\ AddPoint(n[1], n[2], n[3]) /\ UNCHANGED direct
    \/ /\ PathOpen
       /\ EndPath
       /\ direct' = Direct_push_contour(direct, calls)
    \/ \E t \in ComponentInputs :
            /\ AddComponent(<<98>>, t)
            /\ direct' = Direct_push_component(direct, <<98>>, t)
    \/ DropPen /\ UNCHANGED direct
    \/ \E t \in EquivTransforms :
            /\ ApplyAffine(t)
            /\ direct' = Drawing_apply_affine(direct, t)

SpecEquiv == Init /\ [][NextEquiv]_vars

\* C11: the Drawing built with add_anchor and the pen equals the Drawing built
\* by pushing Anchor::new, Contour::from_nodes of the same node list and
\* Component::new, and the two are equal after the same apply_affine calls.
C11_PenEqualsDirect ==
    panic = "none" => drawing = direct

\* the scenario of tests::pen has run: anchor, one cycle of two points,
\* component, then translate(123, 456)
C11_Witness ==
    /\ panic = "none"
    /\ IsApply(lastCall)
    /\ nAffine = 1
    /\ preAffine = ScenarioDrawing
    /\ direct = ScenarioResult

(***************************************************************************)
(* Name validation, checked under Spec.                                    *)
(***************************************************************************)
\* the last call was add_anchor or add_component with a name Name::new rejects
InvalidNameCall(c) ==
    /\ c.op \in {"add_anchor", "add_component"}
    /\ ~Name_new(c.name).ok

\* C12: add_anchor and add_component with an invalid name fail, and the
\* Drawing, the pen and its open contour are as they were before the call.
C12_InvalidNameNoPartialState ==
    [][InvalidNameCall(lastCall')
        => (panic' # "none" /\ drawing' = drawing /\ pen' = pen)]_vars

\* add_component was refused a name holding a control character, while a
\* contour with a point was open and the Drawing held a component
C12_Witness ==
    /\ lastCall.op = "add_component"
    /\ lastCall.name = <<127, 98>>
    /\ panic # "none"
    /\ PathOpen
    /\ Len(unwrap(Slot).nodes) >= 1
    /\ Len(drawing.components) >= 1

\* C13: a name validation failure is returned to the caller, who goes on using
\* the Drawing and the pen session: the run has not panicked.
C13_ValidationRecoverable ==
    InvalidNameCall(lastCall) => panic = "none"

(***************************************************************************)
(* The frame of apply_affine, checked under SpecAffine.                    *)
(***************************************************************************)
\* C14: apply_affine keeps height_and_origin, width, the lengths and order of
\* anchors, components, contours and of every node list, every anchor name,
\* component base and node type; element i is the image of element i.
C14_ApplyAffineFrame ==
    [][IsApply(lastCall')
        => LET T == lastCall'.transform
           IN  /\ drawing'.height_and_origin = drawing.height_and_origin
               /\ drawing'.width = drawing.width
               /\ Len(drawing'.anchors) = Len(drawing.anchors)
               /\ \A i \in 1..Len(drawing.anchors) :
                    /\ drawing'.anchors[i].name = drawing.anchors[i].name
                    /\ drawing'.anchors[i].pt = AffineMulPoint(T, drawing.anchors[i].pt)
               /\ Len(drawing'.components) = Len(drawing.components)
               /\ \A i \in 1..Len(drawing.components) :
                    /\ drawing'.components[i].base = drawing.components[i].base
                    /\ drawing'.components[i].transform
                        = AffineMulAffine(T, drawing.components[i].transform)
               /\ Len(drawing'.contours) = Len(drawing.contours)
               /\ \A i \in 1..Len(drawing.contours) :
                    /\ Len(drawing'.contours[i].nodes) = Len(drawing.contours[i].nodes)
                    /\ \A j \in 1..Len(drawing.contours[i].nodes) :
                        /\ drawing'.contours[i].nodes[j].typ
                            = drawing.contours[i].nodes[j].typ
                        /\ drawing'.contours[i].nodes[j].pt
                            = AffineMulPoint(T, drawing.contours[i].nodes[j].pt)]_vars

\* the skewed matrix was applied to a Drawing with its metrics set, an anchor,
\* two different components and two different contours
C14_Witness ==
    /\ IsApply(lastCall)
    /\ lastCall.transform = Affine_new(<<2, 1, -1, 3, 4, 5>>)
    /\ preAffine.width # 0
    /\ preAffine.height_and_origin # None
    /\ Len(preAffine.anchors) >= 1
    /\ Len(preAffine.components) = 2
    /\ preAffine.components[1] # preAffine.components[2]
    /\ Len(preAffine.contours) = 2
    /\ Len(preAffine.contours[1].nodes) = 2
    /\ Len(preAffine.contours[2].nodes) = 1

(***************************************************************************)
(* The session's hold on the Drawing, checked under SpecEquiv.             *)
(***************************************************************************)
PenCalls == {"begin_path", "add_point", "end_path", "add_component"}

C16_PenAppendOnly ==
    [][/\ (is_some(pen) /\ lastCall'.op \in {"begin_path", "add_point"})
            => drawing' = drawing
       /\ (is_some(pen) /\ lastCall'.op = "end_path" /\ panic' = "none")
            => /\ Len(drawing'.contours) = Len(drawing.contours) + 1
               /\ SubSeq(drawing'.contours, 1, Len(drawing.contours)) = drawing.contours
               /\ drawing' = [drawing EXCEPT !.contours = drawing'.contours]
       /\ (is_some(pen) /\ lastCall'.op = "add_component" /\ panic' = "none")
            => /\ Len(drawing'.components) = Len(drawing.components) + 1
               /\ SubSeq(drawing'.components, 1, Len(drawing.components))
                    = drawing.components
               /\ drawing' = [drawing EXCEPT !.components = drawing'.components]
       /\ (is_some(pen) /\ lastCall'.op \in PenCalls)
            => /\ drawing'.anchors = drawing.anchors
               /\ drawing'.width = drawing.width
               /\ drawing'.height_and_origin = drawing.height_and_origin
       /\ is_some(pen')
            => Len(drawing'.contours) = Len(contours0') + nEnd']_vars

\* a point was added to the open contour of a second cycle, on a Drawing
\* holding an anchor, a component and the contour of the first cycle
C16_Witness ==
    /\ lastCall.op = "add_point"
    /\ panic = "none"
    /\ PathOpen
    /\ Len(unwrap(Slot).nodes) = 2
    /\ nEnd = 1
    /\ Len(drawing.contours) = 1
    /\ Len(drawing.contours[1].nodes) = 1
    /\ Len(drawing.components) >= 1
    /\ Len(drawing.anchors) >= 1

\* C17: dropping a pen whose contour is open does not panic and leaves the
\* Drawing as it is: its contours are those present at the creation of the
\* pen and those of the completed cycles, its components are kept, the open
\* contour is gone; a pen created afterwards is Idle.
C17_DropDiscardsOpenContour ==
    [][/\ (PathOpen /\ lastCall'.op = "drop")
            => /\ panic' = "none"
               /\ pen' = None
               /\ drawing' = drawing
               /\ Len(drawing'.contours) = Len(contours0) + Len(ended)
               /\ \A i \in 1..Len(contours0) : drawing'.contours[i] = contours0[i]
               /\ \A j \in 1..Len(ended) :
                    NodesMatch(drawing'.contours[Len(contours0) + j].nodes, ended[j])
       /\ lastCall'.op = "point_pen"
            => /\ pen' = Some([current_contour |-> None])
               /\ drawing' = drawing]_vars

\* a pen was dropped with two points in its open contour, after a completed
\* cycle and an add_component
C17_Witness ==
    /\ lastCall.op = "drop"
    /\ panic = "none"
    /\ pen = None
    /\ Len(calls) = 2
    /\ Len(drawing.contours) = 1
    /\ Len(drawing.components) >= 1

====
